---- MODULE Spec2Model ----
(***************************************************************************)
(* A model of brightsky/parsers.py: the MOSMIX forecast parser and the     *)
(* DWD observation parsers.  Both parse() methods are Python generators;   *)
(* one Pull action is one next() of the consumer and runs the generator    *)
(* body up to its next yield, its exception or its end.                    *)
(*                                                                         *)
(* Text is modelled as a sequence of one-character strings, numbers        *)
(* (Python floats) as integers counting thousandths, None as the empty     *)
(* tuple and a present value v as the one-element tuple <<v>>.             *)
(***************************************************************************)
EXTENDS Integers, Sequences, FiniteSets, TLC

VARIABLES
    parser,          \* the parser class that was constructed
    archive,         \* the content of the file at self.path
    pc,              \* position of the generator returned by parse()
    err,             \* the exception that left the generator, "" if none
    out,             \* the records handed to the consumer so far
    \* locals of MOSMIXParser.parse / parse_station
    timestamps, source, i, records, base_record, k, parsed,
    \* locals of ObservationsParser.parse / parse_records
    station_id, lat_lon_history, filename, loc, n_read,
    \* argument and result of parse_elements called on its own
    row, elements

vars == << parser, archive, pc, err, out,
           timestamps, source, i, records, base_record, k, parsed,
           station_id, lat_lon_history, filename, loc, n_read,
           row, elements >>

mosmixVars == << timestamps, source, i, records, base_record, k, parsed >>
obsVars == << station_id, lat_lon_history, filename, loc, n_read >>
elemVars == << row, elements >>

----------------------------------------------------------------------------
\* Bounds of the model.

MaxStations == 2
MaxT == 2
MaxHist == 2
MaxRows == 2

----------------------------------------------------------------------------
\* Values.

None == << >>
Some(v) == << v >>

\* Thousandths per unit: the resolution at which a float is represented.
Scale == 1000

Digits == {"0", "1", "2", "3", "4", "5", "6", "7", "8", "9"}

DigitVal(c) ==
    CASE c = "0" -> 0 [] c = "1" -> 1 [] c = "2" -> 2 [] c = "3" -> 3
      [] c = "4" -> 4 [] c = "5" -> 5 [] c = "6" -> 6 [] c = "7" -> 7
      [] c = "8" -> 8 [] c = "9" -> 9

IsSpace(c) == c \in {" ", "\n", "\t"}

\* str.strip()
RECURSIVE LStrip(_)
LStrip(s) ==
    IF s # << >> /\ IsSpace(Head(s)) THEN LStrip(Tail(s)) ELSE s

RECURSIVE RStrip(_)
RStrip(s) ==
    IF s # << >> /\ IsSpace(s[Len(s)])
    THEN RStrip(SubSeq(s, 1, Len(s) - 1))
    ELSE s

Strip(s) == RStrip(LStrip(s))

\* re.sub(r'\s+', '\n', s): every run of whitespace becomes one newline
RECURSIVE SubWhitespace(_)
SubWhitespace(s) ==
    IF s = << >> THEN << >>
    ELSE IF IsSpace(Head(s))
         THEN << "\n" >> \o SubWhitespace(LStrip(s))
         ELSE << Head(s) >> \o SubWhitespace(Tail(s))

\* str.split(sep) for a one-character sep: the parts between the separators
RECURSIVE SplitAcc(_, _, _, _)
SplitAcc(s, sep, cur, acc) ==
    IF s = << >> THEN Append(acc, cur)
    ELSE IF Head(s) = sep
         THEN SplitAcc(Tail(s), sep, << >>, Append(acc, cur))
         ELSE SplitAcc(Tail(s), sep, Append(cur, Head(s)), acc)

Split(s, sep) == SplitAcc(s, sep, << >>, << >>)

\* str.splitlines(): no line for the empty string
SplitLines(s) == IF s = << >> THEN << >> ELSE Split(s, "\n")

RECURSIVE DigitsValue(_, _)
DigitsValue(s, acc) ==
    IF s = << >> THEN acc ELSE DigitsValue(Tail(s), 10 * acc + DigitVal(Head(s)))

IndexOf(s, c) ==
    IF \E p \in 1..Len(s) : s[p] = c
    THEN CHOOSE p \in 1..Len(s) : s[p] = c /\ \A q \in 1..(p - 1) : s[q] # c
    ELSE 0

\* float(text) for decimal text [sign]digits[.digits] with at most three
\* fractional digits; anything else is a ValueError (ok = FALSE).
IsNegative(s) == s # << >> /\ Head(s) = "-"

Unsigned(s) == IF s # << >> /\ Head(s) \in {"-", "+"} THEN Tail(s) ELSE s

IntDigits(body, dot) == IF dot = 0 THEN body ELSE SubSeq(body, 1, dot - 1)

FracDigits(body, dot) ==
    IF dot = 0 THEN << >> ELSE SubSeq(body, dot + 1, Len(body))

Magnitude(ip, fp) ==
    DigitsValue(ip, 0) * Scale
    + DigitsValue(SubSeq(fp \o << "0", "0", "0" >>, 1, 3), 0)

Decimal(neg, ip, fp) ==
    IF /\ \A p \in 1..Len(ip) : ip[p] \in Digits
       /\ \A p \in 1..Len(fp) : fp[p] \in Digits
       /\ Len(ip) + Len(fp) > 0
       /\ Len(fp) <= 3
    THEN [ok |-> TRUE,
          val |-> IF neg THEN 0 - Magnitude(ip, fp) ELSE Magnitude(ip, fp)]
    ELSE [ok |-> FALSE, val |-> 0]

DecimalAt(neg, body, dot) ==
    Decimal(neg, IntDigits(body, dot), FracDigits(body, dot))

SignedDecimal(neg, body) == DecimalAt(neg, body, IndexOf(body, "."))

FloatOfStripped(s) == SignedDecimal(IsNegative(s), Unsigned(s))

FloatOf(text) == FloatOfStripped(Strip(text))

\* round(x, 2): to the nearest hundredth, a tie to the even one
Round2(x) ==
    LET r  == x % 10
        lo == x - r
    IN  IF r < 5 THEN lo
        ELSE IF r > 5 THEN lo + 10
        ELSE IF (lo \div 10) % 2 = 0 THEN lo ELSE lo + 10

----------------------------------------------------------------------------
\* MOSMIXParser

\* MOSMIXParser.ELEMENTS, in dict order: element code -> column
ELEMENTS ==
    << [element |-> "TTT",   column |-> "temperature"],
       [element |-> "DD",    column |-> "wind_direction"],
       [element |-> "FF",    column |-> "wind_speed"],
       [element |-> "RR1c",  column |-> "precipitation"],
       [element |-> "SunD1", column |-> "sunshine"],
       [element |-> "PPPP",  column |-> "pressure_msl"] >>

ElementCodes == { ELEMENTS[e].element : e \in 1..Len(ELEMENTS) }

\* One token of a value series: None for a dash, else the float.
SomeFloat(f) == [ok |-> f.ok, val |-> Some(f.val)]

ForecastValue(field) ==
    IF field = << "-" >> THEN [ok |-> TRUE, val |-> None]
    ELSE SomeFloat(FloatOf(field))

\* [... for row in csv.reader(re.sub(r'\s+', '\n', values_str.strip())
\*                            .splitlines())]
\* A line of the series holds no comma and no quote, so row[0] is the line.
SeriesLines(values_str) == SplitLines(SubWhitespace(Strip(values_str)))

SeriesValues(vals) ==
    [ok  |-> \A p \in 1..Len(vals) : vals[p].ok,
     val |-> [p \in 1..Len(vals) |-> vals[p].val]]

LineValues(lines) == [p \in 1..Len(lines) |-> ForecastValue(lines[p])]

ParseSeries(values_str) == SeriesValues(LineValues(SeriesLines(values_str)))

\* Mutant: only a series that is too short is refused.
SeriesLengthAtLeast(series, ts) == Len(series) >= Len(ts)

\* assert len(records[column]) == len(timestamps)
SeriesLengthOk(series, ts) == Len(series) = Len(ts)

\* The for loop over ELEMENTS of parse_station, from element e on; ser is
\* the parsed series of element e.
RECURSIVE ElementLoop(_, _, _, _)
ElementStep(station_sel, ts, e, recs, ser) ==
    IF ~ser.ok THEN [err |-> "ValueError", records |-> recs]
    ELSE IF ~SeriesLengthOk(ser.val, ts)
         THEN [err |-> "AssertionError", records |-> recs]
         ELSE ElementLoop(station_sel, ts, e + 1,
                          recs @@ (ELEMENTS[e].column :> ser.val))

ElementLoop(station_sel, ts, e, recs) ==
    IF e > Len(ELEMENTS) THEN [err |-> "", records |-> recs]
    ELSE ElementStep(station_sel, ts, e, recs,
                     ParseSeries(station_sel.forecast[ELEMENTS[e].element]))

\* lat, lon, height = coordinates.split(',')
Unpack3(parts) ==
    IF Len(parts) # 3
    THEN [ok |-> FALSE, lat |-> << >>, lon |-> << >>, height |-> << >>]
    ELSE [ok |-> TRUE, lat |-> parts[1], lon |-> parts[2],
          height |-> parts[3]]

UnpackCoordinates(text) == Unpack3(Split(text, ","))

\* base_record
BaseRecord(station_sel, src, flat, flon, fhgt) ==
    IF ~(flat.ok /\ flon.ok /\ fhgt.ok) THEN [err |-> "ValueError"]
    ELSE [err |-> "",
          base_record |->
              [observation_type |-> "forecast",
               source |-> src,
               station_id |-> station_sel.name,
               lat |-> flat.val,
               lon |-> flon.val,
               height |-> fhgt.val]]

WithBase(loop, base) ==
    IF base.err # "" THEN [err |-> base.err]
    ELSE [err |-> "", records |-> loop.records,
          base_record |-> base.base_record]

StationBody(station_sel, src, c, loop) ==
    IF ~c.ok THEN [err |-> "ValueError"]
    ELSE IF loop.err # "" THEN [err |-> loop.err]
    ELSE WithBase(loop, BaseRecord(station_sel, src, FloatOf(c.lat),
                                   FloatOf(c.lon), FloatOf(c.height)))

\* parse_station up to its first yield: the station's lists and base record.
ParseStation(station_sel, ts, src) ==
    StationBody(station_sel, src,
                UnpackCoordinates(station_sel.coordinates),
                ElementLoop(station_sel, ts, 1, ("timestamp" :> ts)))

\* zip(*records.values()) stops with the shortest list
NRows(recs) ==
    CHOOSE n \in 0..Len(recs["timestamp"]) :
        /\ \A c \in DOMAIN recs : Len(recs[c]) >= n
        /\ \E c \in DOMAIN recs : Len(recs[c]) = n

\* Mutant: the timestamp column is not advanced with the others.
StationRecordStaleTimestamp(base, recs, r) ==
    base @@ [c \in DOMAIN recs |->
               IF c = "timestamp" THEN recs[c][1] ELSE recs[c][r]]

\* {**base_record, **dict(zip(records, row))} for the row at index r
StationRecord(base, recs, r) ==
    base @@ [c \in DOMAIN recs |-> recs[c][r]]

\* The for loop of parse from station s on, up to the next yield: a station
\* with no rows yields nothing and the loop goes on to the next one.
RECURSIVE RunStations(_, _, _, _)
Visited(s, nxt) == [nxt EXCEPT !.visited = << s >> \o @]

AfterStation(doc, ts, src, s, st) ==
    IF st.err # ""
    THEN [pc |-> "error", err |-> st.err, i |-> s, visited |-> << s >>]
    ELSE IF NRows(st.records) = 0
         THEN Visited(s, RunStations(doc, ts, src, s + 1))
         ELSE [pc |-> "yield", err |-> "", i |-> s,
               visited |-> << s >>,
               records |-> st.records,
               base_record |-> st.base_record]

\* Mutant: every remaining station is parsed and checked before the first
\* record of station s is handed out.
RunStationsEager(doc, ts, src, s) ==
    IF s > Len(doc.placemarks)
    THEN [pc |-> "done", err |-> "", i |-> s, visited |-> << >>]
    ELSE IF \E b \in s..Len(doc.placemarks) :
                ParseStation(doc.placemarks[b], ts, src).err # ""
    THEN LET b == CHOOSE x \in s..Len(doc.placemarks) :
                    /\ ParseStation(doc.placemarks[x], ts, src).err # ""
                    /\ \A y \in s..(x - 1) :
                          ParseStation(doc.placemarks[y], ts, src).err = ""
         IN  [pc |-> "error",
              err |-> ParseStation(doc.placemarks[b], ts, src).err,
              i |-> b, visited |-> [x \in 1..(b - s + 1) |-> s + x - 1]]
    ELSE AfterStation(doc, ts, src, s,
                      ParseStation(doc.placemarks[s], ts, src))

RunStations(doc, ts, src, s) ==
    IF s > Len(doc.placemarks)
    THEN [pc |-> "done", err |-> "", i |-> s, visited |-> << >>]
    ELSE AfterStation(doc, ts, src, s,
                      ParseStation(doc.placemarks[s], ts, src))

\* The outcome of running the generator to its next stop, written into the
\* state.
EnterStations(run) ==
    /\ pc' = IF run.pc = "yield" THEN "suspended" ELSE run.pc
    /\ err' = run.err
    /\ i' = run.i
    /\ parsed' = parsed \o run.visited
    /\ IF run.pc = "yield"
       THEN /\ records' = run.records
            /\ base_record' = run.base_record
            /\ k' = 1
            /\ out' = Append(out, StationRecord(run.base_record,
                                                run.records, 1))
       ELSE /\ records' = << >>
            /\ base_record' = << >>
            /\ k' = 0
            /\ out' = out

\* parse_source: ':'.join of the ProductID and IssueTime texts
ParseSource(doc) == << doc.product_id, doc.issue_time >>

\* The first next(): parse runs from its top to the first yield.
MosmixStart ==
    /\ parser = "MOSMIX"
    /\ pc = "start"
    /\ timestamps' = archive.timesteps
    /\ source' = ParseSource(archive)
    /\ EnterStations(RunStations(archive, archive.timesteps,
                                 ParseSource(archive), 1))
    /\ UNCHANGED << parser, archive, obsVars, elemVars >>

\* A later next(): the next row of the station, or on to the next station.
MosmixResume ==
    /\ parser = "MOSMIX"
    /\ pc = "suspended"
    /\ IF k < NRows(records)
       THEN /\ k' = k + 1
            /\ out' = Append(out, StationRecord(base_record, records, k + 1))
            /\ UNCHANGED << pc, err, i, records, base_record, parsed >>
       ELSE EnterStations(RunStations(archive, timestamps, source, i + 1))
    /\ UNCHANGED << parser, archive, timestamps, source, obsVars, elemVars >>

\* The consumer stops: the generator is closed and never resumed.
MosmixClose ==
    /\ parser = "MOSMIX"
    /\ pc \in {"start", "suspended"}
    /\ pc' = "closed"
    /\ UNCHANGED << parser, archive, err, out, mosmixVars, obsVars, elemVars >>

----------------------------------------------------------------------------
\* Bulletins the forecast parser is run on.

DigitChar(n) ==
    CASE n = 0 -> "0" [] n = 1 -> "1" [] n = 2 -> "2" [] n = 3 -> "3"
      [] n = 4 -> "4" [] n = 5 -> "5" [] n = 6 -> "6" [] n = 7 -> "7"
      [] n = 8 -> "8" [] n = 9 -> "9"

\* Token p of element e of station s: a dash, or one of a few decimals.
TokenAt(s, e, p) ==
    LET sel == (s + e + 2 * p) % 4
    IN  CASE sel = 0 -> << "-" >>
          [] sel = 1 -> << DigitChar(s), DigitChar(e), ".", DigitChar(p) >>
          [] sel = 2 -> << "-", DigitChar(p), ".", "2", "5" >>
          [] sel = 3 -> << DigitChar(e), DigitChar(p) >>

RECURSIVE SeriesText(_, _, _)
SeriesText(s, e, n) ==
    IF n = 0 THEN << "\n", " " >>
    ELSE SeriesText(s, e, n - 1) \o TokenAt(s, e, n)
         \o (IF n % 2 = 0 THEN << " " >> ELSE << " ", "\n", " " >>)

\* A station block: the series of element `odd` (0: none) is delta longer
\* than the timestamp axis, every other series is as long as the axis.
\* The coordinates read longitude,latitude,height.
Placemark(s, T, shape) ==
    [name |-> << "0", "1", "0", "2", DigitChar(s) >>,
     coordinates |-> << DigitChar(s), ".", "5", ",",
                        "5", DigitChar(s), ",", "1", "6" >>,
     forecast |-> [c \in ElementCodes |->
        LET e == CHOOSE x \in 1..Len(ELEMENTS) : ELEMENTS[x].element = c
        IN  SeriesText(s, e, IF e = shape.odd THEN T + shape.delta ELSE T)]]

Shapes(T) ==
    { [odd |-> 0, delta |-> 0] }
    \cup { [odd |-> e, delta |-> d] :
             e \in 1..Len(ELEMENTS), d \in { x \in {-1, 1} : T + x >= 0 } }

Bulletin(T, shapes) ==
    [timesteps |-> [p \in 1..T |-> 100 + p],
     product_id |-> "MOSMIX",
     issue_time |-> "2020-03-13T09:00:00.000Z",
     placemarks |-> [s \in 1..Len(shapes) |-> Placemark(s, T, shapes[s])]]

MosmixInit ==
    /\ parser = "MOSMIX"
    /\ \E T \in 0..MaxT, S \in 0..MaxStations :
         \E shapes \in [1..S -> Shapes(T)] :
            archive = Bulletin(T, shapes)
    /\ pc = "start"
    /\ err = ""
    /\ out = << >>
    /\ timestamps = << >>
    /\ source = << >>
    /\ i = 0
    /\ records = << >>
    /\ base_record = << >>
    /\ k = 0
    /\ parsed = << >>
    /\ station_id = << >>
    /\ lat_lon_history = << >>
    /\ filename = << >>
    /\ loc = << >>
    /\ n_read = 0
    /\ row = << >>
    /\ elements = << >>

MosmixNext == MosmixStart \/ MosmixResume \/ MosmixClose

SpecMosmix == MosmixInit /\ [][MosmixNext]_vars

----------------------------------------------------------------------------
\* ObservationsParser and its five subclasses

ObservationParsers ==
    {"Temperature", "Precipitation", "Wind", "Sunshine", "Pressure"}

\* The class attribute `elements`, in dict order: output field -> column key
ObsElements(p) ==
    CASE p = "Temperature"   -> << [element |-> "temperature", key |-> "TT_TU"] >>
      [] p = "Precipitation" -> << [element |-> "precipitation", key |-> "  R1"] >>
      [] p = "Wind"          -> << [element |-> "wind_speed", key |-> "   F"],
                                   [element |-> "wind_direction", key |-> "   D"] >>
      [] p = "Sunshine"      -> << [element |-> "sunshine", key |-> "SD_SO"] >>
      [] p = "Pressure"      -> << [element |-> "pressure_msl", key |-> "  P0"] >>

\* The class attribute `conversion_factors`
ConversionFactors(p) ==
    CASE p = "Sunshine" -> << [element |-> "sunshine", factor |-> 60] >>
      [] p = "Pressure" -> << [element |-> "pressure_msl", factor |-> 100] >>
      [] OTHER          -> << >>

\* 273.15, the offset from degrees Celsius to Kelvin
KelvinOffset == 273150

MissingText == << "-", "9", "9", "9" >>

\* float(row[element_key]) if row[element_key].strip() != '-999' else None
ObservationValue(cell) ==
    IF Strip(cell) # MissingText
    THEN SomeFloat(FloatOf(cell))
    ELSE [ok |-> TRUE, val |-> None]

ElementNames(els) == { els[e].element : e \in 1..Len(els) }

KeyOf(els, name) ==
    els[CHOOSE e \in 1..Len(els) : els[e].element = name].key

ElementValues(els, r) ==
    [name \in ElementNames(els) |-> ObservationValue(r[KeyOf(els, name)])]

ElementsDict(vals) ==
    IF \E name \in DOMAIN vals : ~vals[name].ok
    THEN [err |-> "ValueError", val |-> << >>]
    ELSE [err |-> "", val |-> [name \in DOMAIN vals |-> vals[name].val]]

\* Mutant: the factor is not applied.
ConvertedUnscaled(v, factor) == Some(Round2(v[1]))

\* elements[element] *= factor; elements[element] = round(elements[element], 2)
Converted(v, factor) == Some(Round2(v[1] * factor))

\* for element, factor in self.conversion_factors.items(): ...
RECURSIVE FactorLoop(_, _, _)
FactorLoop(factors, f, els) ==
    IF f > Len(factors) THEN [err |-> "", val |-> els]
    ELSE IF els[factors[f].element] = None
         THEN [err |-> "TypeError", val |-> << >>]
         ELSE FactorLoop(factors, f + 1,
                  [els EXCEPT ![factors[f].element] =
                                  Converted(@, factors[f].factor)])

WithFactors(p, d) ==
    IF d.err # "" THEN d ELSE FactorLoop(ConversionFactors(p), 1, d.val)

\* ObservationsParser.parse_elements
BaseParseElements(p, r) ==
    WithFactors(p, ElementsDict(ElementValues(ObsElements(p), r)))

\* round(elements['temperature'] + 273.15, 2)
ToKelvin(d) ==
    IF d.err # "" THEN d
    ELSE IF d.val["temperature"] = None
         THEN [err |-> "TypeError", val |-> << >>]
         ELSE [err |-> "",
               val |-> [d.val EXCEPT !["temperature"] =
                                   Some(Round2(@[1] + KelvinOffset))]]

\* TemperatureObservationsParser.parse_elements
TemperatureParseElements(r) == ToKelvin(BaseParseElements("Temperature", r))

\* self.parse_elements(row), dispatched on the class
ParseElements(p, r) ==
    IF p = "Temperature" THEN TemperatureParseElements(r)
    ELSE BaseParseElements(p, r)

\* A datetime is represented by the number YYYYMMDDHH, which orders as the
\* datetimes do.
\* datetime.strptime(text, '%Y%m%d').replace(tzinfo=tzutc())
DateOf(text) ==
    IF Len(text) = 8 /\ \A q \in 1..Len(text) : text[q] \in Digits
    THEN [ok |-> TRUE, val |-> DigitsValue(text, 0) * 100]
    ELSE [ok |-> FALSE, val |-> 0]

\* datetime.strptime(text, '%Y%m%d%H').replace(tzinfo=tzutc())
HourOf(text) ==
    IF Len(text) = 10 /\ \A q \in 1..Len(text) : text[q] \in Digits
    THEN [ok |-> TRUE, val |-> DigitsValue(text, 0)]
    ELSE [ok |-> FALSE, val |-> 0]

MetaStem == "Metadaten_Geographie_"

RECURSIVE LeadingDigits(_)
LeadingDigits(s) ==
    IF s # << >> /\ Head(s) \in Digits
    THEN << Head(s) >> \o LeadingDigits(Tail(s))
    ELSE << >>

\* re.match(r'Metadaten_Geographie_(\d+)\.txt', filename): a match at the
\* start of the name, which may go on after it.  A name is the sequence of
\* its parts: the stem, the digits one by one, the extension, the rest.
MatchAfterStem(rest, digits) ==
    IF /\ digits # << >>
       /\ Len(rest) > Len(digits)
       /\ rest[Len(digits) + 1] = ".txt"
    THEN [ok |-> TRUE, group |-> digits]
    ELSE [ok |-> FALSE, group |-> << >>]

MatchStationId(fn) ==
    IF fn # << >> /\ Head(fn) = MetaStem
    THEN MatchAfterStem(Tail(fn), LeadingDigits(Tail(fn)))
    ELSE [ok |-> FALSE, group |-> << >>]

\* parse_station_id: the first name of the list that matches
RECURSIVE ParseStationId(_)
ParseStationId(namelist) ==
    IF namelist = << >> THEN [err |-> "ValueError", val |-> << >>]
    ELSE IF MatchStationId(Head(namelist)).ok
         THEN [err |-> "", val |-> MatchStationId(Head(namelist)).group]
         ELSE ParseStationId(Tail(namelist))

\* f'Metadaten_Geographie_{station_id}.txt'
MetaName(sid) == << MetaStem >> \o sid \o << ".txt" >>

\* history[date_from] = ...: a dict keeps the place of a key it already
\* holds and takes the new value
DictSet(d, key, val) ==
    IF \E j \in 1..Len(d) : d[j].date = key
    THEN [j \in 1..Len(d) |->
            IF d[j].date = key THEN [date |-> key, val |-> val] ELSE d[j]]
    ELSE Append(d, [date |-> key, val |-> val])

\* (float(row['Geogr.Laenge']), float(row['Geogr.Breite']),
\*  float(row['Stationshoehe']))
HistoryValue(laenge, breite, hoehe) == << laenge.val, breite.val, hoehe.val >>

RECURSIVE HistoryLoop(_, _, _)
HistoryStep(rows, j, history, date_from, laenge, breite, hoehe) ==
    IF ~(date_from.ok /\ laenge.ok /\ breite.ok /\ hoehe.ok)
    THEN [err |-> "ValueError", val |-> << >>]
    ELSE HistoryLoop(rows, j + 1,
             DictSet(history, date_from.val,
                     HistoryValue(laenge, breite, hoehe)))

HistoryLoop(rows, j, history) ==
    IF j > Len(rows) THEN [err |-> "", val |-> history]
    ELSE HistoryStep(rows, j, history,
                     DateOf(Strip(rows[j]["von_datum"])),
                     FloatOf(rows[j]["Geogr.Laenge"]),
                     FloatOf(rows[j]["Geogr.Breite"]),
                     FloatOf(rows[j]["Stationshoehe"]))

\* parse_lat_lon_history: zf.open raises KeyError for a name not in the zip
ParseLatLonHistory(zf, sid) ==
    IF MetaName(sid) \notin DOMAIN zf.files
    THEN [err |-> "KeyError", val |-> << >>]
    ELSE HistoryLoop(zf.files[MetaName(sid)], 1, << >>)

\* [fn for fn in zf.namelist() if fn.startswith('produkt_')]
ProductFilenames(namelist) ==
    SelectSeq(namelist, LAMBDA fn : fn # << >> /\ Head(fn) = "produkt_")

\* Mutant: the first product member is taken when there are several.
ProductCountAtLeastOne(names) == Len(names) >= 1

\* assert len(product_filenames) == 1, "Unexpected product count"
ProductCountOk(names) == Len(names) = 1

\* lat, lon, height = lat_lon_height
UnpackLocation(t) == [lat |-> t[1], lon |-> t[2], height |-> t[3]]

\* for date, lat_lon_height in lat_lon_history.items():
\*     if date > timestamp: break
\*     lat, lon, height = lat_lon_height
\* cur is what lat, lon and height hold: << >> while they are unbound.
RECURSIVE ScanHistory(_, _, _, _)
\* Mutant: the scan stops at an entry dated at the timestamp itself.
ScanHistoryExclusive(history, j, timestamp, cur) ==
    IF j > Len(history) THEN cur
    ELSE IF history[j].date >= timestamp THEN cur
    ELSE ScanHistory(history, j + 1, timestamp, UnpackLocation(history[j].val))

ScanHistory(history, j, timestamp, cur) ==
    IF j > Len(history) THEN cur
    ELSE IF history[j].date > timestamp THEN cur
    ELSE ScanHistory(history, j + 1, timestamp, UnpackLocation(history[j].val))

\* Mutant: the source names the metadata member instead of the product.
ObservationRecordMetaSource(fn, sid, l, timestamp, els) ==
    [observation_type |-> "recent",
     source |-> << "Observations", "Recent", MetaName(sid) >>,
     station_id |-> sid,
     lat |-> l.lat,
     lon |-> l.lon,
     height |-> l.height,
     timestamp |-> timestamp] @@ els

\* The dict the yield of parse_records builds
ObservationRecord(fn, sid, l, timestamp, els) ==
    [observation_type |-> "recent",
     source |-> << "Observations", "Recent", fn >>,
     station_id |-> sid,
     lat |-> l.lat,
     lon |-> l.lon,
     height |-> l.height,
     timestamp |-> timestamp] @@ els

\* One pass of the body of `for row in reader`: lat, lon and height are read
\* before parse_elements is called.
RowOutcome(fn, sid, l, timestamp, els) ==
    IF ~timestamp.ok THEN [err |-> "ValueError", loc |-> l]
    ELSE IF l = << >> THEN [err |-> "UnboundLocalError", loc |-> l]
    ELSE IF els.err # "" THEN [err |-> els.err, loc |-> l]
    ELSE [err |-> "", loc |-> l,
          record |-> ObservationRecord(fn, sid, l, timestamp.val, els.val)]

ScanFor(history, timestamp, cur) ==
    IF timestamp.ok THEN ScanHistory(history, 1, timestamp.val, cur) ELSE cur

ProcessRow(p, fn, sid, history, cur, r) ==
    RowOutcome(fn, sid, ScanFor(history, HourOf(r["MESS_DATUM"]), cur),
               HourOf(r["MESS_DATUM"]), ParseElements(p, r))

\* The generator reads the next row of the product file, if there is one.
NextRow(res) ==
    /\ n_read' = n_read + 1
    /\ loc' = res.loc
    /\ err' = res.err
    /\ IF res.err = ""
       THEN pc' = "suspended" /\ out' = Append(out, res.record)
       ELSE pc' = "error" /\ out' = out

ReadRows(fn, sid, history) ==
    IF n_read < Len(archive.files[fn])
    THEN NextRow(ProcessRow(parser, fn, sid, history, loc,
                            archive.files[fn][n_read + 1]))
    ELSE /\ pc' = "done"
         /\ UNCHANGED << err, out, loc, n_read >>

Fail(e) ==
    /\ pc' = "error"
    /\ err' = e
    /\ UNCHANGED << out, loc, n_read >>

\* parse_records from its top to its first stop
EnterRecords(sid, history, names) ==
    /\ station_id' = sid
    /\ lat_lon_history' = history
    /\ IF ~ProductCountOk(names)
       THEN Fail("AssertionError") /\ filename' = filename
       ELSE filename' = names[1] /\ ReadRows(names[1], sid, history)

AfterHistory(sid, hist) ==
    IF hist.err # ""
    THEN Fail(hist.err) /\ station_id' = sid
         /\ UNCHANGED << lat_lon_history, filename >>
    ELSE EnterRecords(sid, hist.val, ProductFilenames(archive.namelist))

AfterStationId(sid) ==
    IF sid.err # ""
    THEN Fail(sid.err) /\ UNCHANGED << station_id, lat_lon_history, filename >>
    ELSE AfterHistory(sid.val, ParseLatLonHistory(archive, sid.val))

\* The first next(): parse runs from its top to the first yield.
ObsStart ==
    /\ parser \in ObservationParsers
    /\ pc = "start"
    /\ AfterStationId(ParseStationId(archive.namelist))
    /\ UNCHANGED << parser, archive, mosmixVars, elemVars >>

\* A later next(): the loop of parse_records goes on with the next row.
ObsResume ==
    /\ parser \in ObservationParsers
    /\ pc = "suspended"
    /\ ReadRows(filename, station_id, lat_lon_history)
    /\ UNCHANGED << parser, archive, station_id, lat_lon_history, filename,
                    mosmixVars, elemVars >>

----------------------------------------------------------------------------
\* Archives the observation parsers are run on.

StationDigits == << "0", "4", "9", "1", "1" >>
GoodMeta == MetaName(StationDigits)
LooseMeta == GoodMeta \o << ".bak" >>
ProductA == << "produkt_", "stunde_20180915_20200317_04911", ".txt" >>
ProductB == << "produkt_", "stunde_20200318_20200401_04911", ".txt" >>
OtherFile == << "Metadaten_Parameter_", "0", "4", "9", "1", "1", ".txt" >>

DateTexts == { << "2", "0", "1", "8", "0", "1", "0", "1" >>,
               << "2", "0", "1", "9", "0", "6", "0", "1" >> }

\* before the first date, between the two, an hour before the second, on it
HourTexts == { << "2", "0", "1", "7", "1", "2", "3", "1", "2", "3" >>,
               << "2", "0", "1", "8", "1", "2", "3", "1", "0", "0" >>,
               << "2", "0", "1", "9", "0", "5", "3", "1", "2", "3" >>,
               << "2", "0", "1", "9", "0", "6", "0", "1", "0", "0" >> }

\* Row j of Metadaten_Geographie: its place in the file is read off its values.
GeographyRow(j, date) ==
    [col \in {"von_datum", "Geogr.Laenge", "Geogr.Breite", "Stationshoehe"} |->
        CASE col = "von_datum"     -> date \o << " " >>
          [] col = "Geogr.Laenge"  -> << "1", "2", ".", "5", DigitChar(j) >>
          [] col = "Geogr.Breite"  -> << "4", "8", ".", "8", DigitChar(j) >>
          [] col = "Stationshoehe" -> << "3", "5", DigitChar(j), ".", "5" >>]

PresentCell(r, e) == << " ", " ", DigitChar(r), ".", DigitChar(e), "7" >>
MissingCell == << " ", "-", "9", "9", "9" >>

\* Row r of the product file of parser p; when `missing`, the cell of the
\* first element holds -999.
ProductRow(p, r, hourText, missing) ==
    [col \in {"MESS_DATUM"} \cup { ObsElements(p)[e].key :
                                      e \in 1..Len(ObsElements(p)) } |->
        IF col = "MESS_DATUM" THEN hourText
        ELSE LET e == CHOOSE x \in 1..Len(ObsElements(p)) :
                          ObsElements(p)[x].key = col
             IN  IF missing /\ e = 1 THEN MissingCell ELSE PresentCell(r, e)]

Zip(namelist, geography, product) ==
    [namelist |-> namelist,
     files |-> [fn \in { namelist[j] : j \in 1..Len(namelist) } |->
                  IF Head(fn) = "produkt_" THEN product
                  ELSE IF Head(fn) = MetaStem THEN geography
                  ELSE << >>]]

GoodNamelists == { << OtherFile, GoodMeta, ProductA >> }

BadNamelists ==
    { << OtherFile, ProductA >>,
      << LooseMeta, ProductA >>,
      << GoodMeta, OtherFile >>,
      << GoodMeta, ProductA, ProductB >>,
      << ProductA, ProductB >>,
      << OtherFile >> }

Geographies(n) ==
    UNION { { [j \in 1..h |-> GeographyRow(j, dates[j])] :
                dates \in [1..h -> DateTexts] } : h \in 0..n }

Products(p, n) ==
    UNION { { [r \in 1..m |-> ProductRow(p, r, rows[r].hour, rows[r].missing)] :
                rows \in [1..m -> [hour : HourTexts, missing : BOOLEAN]] } :
            m \in 0..n }

ObsArchives(p) ==
    { Zip(nl, g, pr) : nl \in GoodNamelists, g \in Geographies(MaxHist),
                       pr \in Products(p, MaxRows) }
    \cup { Zip(nl, g, pr) : nl \in BadNamelists, g \in Geographies(1),
                            pr \in Products(p, 0) \cup
                                   { << ProductRow(p, 1, h, FALSE) >> :
                                       h \in HourTexts } }

ObsInit ==
    /\ parser \in ObservationParsers
    /\ archive \in ObsArchives(parser)
    /\ pc = "start"
    /\ err = ""
    /\ out = << >>
    /\ timestamps = << >>
    /\ source = << >>
    /\ i = 0
    /\ records = << >>
    /\ base_record = << >>
    /\ k = 0
    /\ parsed = << >>
    /\ station_id = << >>
    /\ lat_lon_history = << >>
    /\ filename = << >>
    /\ loc = << >>
    /\ n_read = 0
    /\ row = << >>
    /\ elements = << >>

ObsNext == ObsStart \/ ObsResume

SpecObs == ObsInit /\ [][ObsNext]_vars

----------------------------------------------------------------------------
\* parse_elements called on one row.

CellTexts ==
    { << "-", "9", "9", "9" >>,
      << " ", " ", "-", "9", "9", "9", " " >>,
      << "-", "9", "9", "9", ".", "0" >>,
      << " ", " ", " ", "0" >>,
      << " ", " ", "1", ".", "6" >>,
      << " ", "1", "3", ".", "7" >>,
      << " ", "-", "5", ".", "3" >>,
      << "9", "8", "0", ".", "9" >>,
      << "1", ".", "2", "3", "4" >> }

ElementKeys(p) == { ObsElements(p)[e].key : e \in 1..Len(ObsElements(p)) }

ElementsInit ==
    /\ parser \in ObservationParsers
    /\ row \in [ElementKeys(parser) -> CellTexts]
    /\ elements = << >>
    /\ pc = "start"
    /\ err = ""
    /\ archive = << >>
    /\ out = << >>
    /\ timestamps = << >>
    /\ source = << >>
    /\ i = 0
    /\ records = << >>
    /\ base_record = << >>
    /\ k = 0
    /\ parsed = << >>
    /\ station_id = << >>
    /\ lat_lon_history = << >>
    /\ filename = << >>
    /\ loc = << >>
    /\ n_read = 0

Returned(res) ==
    /\ elements' = res.val
    /\ err' = res.err
    /\ pc' = IF res.err = "" THEN "done" ELSE "error"

ElementsCall ==
    /\ parser \in ObservationParsers
    /\ pc = "start"
    /\ row # << >>
    /\ Returned(ParseElements(parser, row))
    /\ UNCHANGED << parser, archive, out, row, mosmixVars, obsVars >>

ElementsNext == ElementsCall

SpecElements == ElementsInit /\ [][ElementsNext]_vars

----------------------------------------------------------------------------
\* Properties of the forecast path.

AxisLen == Len(archive.timesteps)
StationCount == Len(archive.placemarks)

SeriesFits(s, e) ==
    Len(SeriesLines(archive.placemarks[s].forecast[ELEMENTS[e].element]))
        = AxisLen

StationFits(s) == \A e \in 1..Len(ELEMENTS) : SeriesFits(s, e)

AllSeriesFit == \A s \in 1..StationCount : StationFits(s)

SeriesValue(s, e, r) ==
    ForecastValue(
        SeriesLines(archive.placemarks[s].forecast[ELEMENTS[e].element])[r]).val

\* Record n is record r of station s.
IsRecordOf(n, s, r) ==
    /\ out[n].station_id = archive.placemarks[s].name
    /\ out[n].timestamp = archive.timesteps[r]
    /\ \A e \in 1..Len(ELEMENTS) :
          out[n][ELEMENTS[e].column] = SeriesValue(s, e, r)

\* C1: when every series of every station is as long as the timestamp axis,
\* the parse does not fail, a full consumption yields exactly S*T records,
\* and record n is record ((n-1) mod T)+1 of station ((n-1) div T)+1: the
\* station's name, the timestamp at that index and the value at that index
\* of each of the six series.
C1_RecordsAlignWithAxis ==
    (parser = "MOSMIX" /\ AllSeriesFit) =>
        /\ pc # "error"
        /\ Len(out) <= StationCount * AxisLen
        /\ (pc = "done" => Len(out) = StationCount * AxisLen)
        /\ \A n \in 1..Len(out) :
              IsRecordOf(n, ((n - 1) \div AxisLen) + 1, ((n - 1) % AxisLen) + 1)

C1_Witness ==
    /\ parser = "MOSMIX"
    /\ AllSeriesFit
    /\ StationCount = 2
    /\ AxisLen = 2
    /\ pc = "done"
    /\ Len(out) = 4
    /\ out[3].timestamp = archive.timesteps[1]
    /\ out[4].sunshine # out[2].sunshine

HasBadStation == \E s \in 1..StationCount : ~StationFits(s)

FirstBadStation ==
    CHOOSE s \in 1..StationCount :
        ~StationFits(s) /\ \A b \in 1..(s - 1) : StationFits(b)

\* C2: when a series of some station is not as long as the timestamp axis,
\* the parse never completes; the only records handed out are those of the
\* stations before the first such station, at most T of each; once that
\* station's extraction has run the parse has failed with an AssertionError
\* with every record of the stations before it handed out and none of that
\* station or a later one.
C2_LengthMismatchIsFatal ==
    (parser = "MOSMIX" /\ HasBadStation) =>
        /\ pc # "done"
        /\ Len(out) <= (FirstBadStation - 1) * AxisLen
        /\ \A n \in 1..Len(out) :
              \E s \in 1..(FirstBadStation - 1) :
                 out[n].station_id = archive.placemarks[s].name
        /\ (\E j \in 1..Len(parsed) : parsed[j] = FirstBadStation) =>
              /\ pc = "error"
              /\ err = "AssertionError"
              /\ i = FirstBadStation
              /\ Len(out) = (FirstBadStation - 1) * AxisLen
        /\ pc = "error" => i = FirstBadStation

C2_Witness ==
    /\ parser = "MOSMIX"
    /\ StationCount = 2
    /\ AxisLen = 2
    /\ ~StationFits(2)
    /\ StationFits(1)
    /\ \E e \in 1..Len(ELEMENTS) :
          Len(SeriesLines(
                archive.placemarks[2].forecast[ELEMENTS[e].element])) = 3
    /\ pc = "error"
    /\ err = "AssertionError"
    /\ Len(out) = 2

\* C9: record production is pull-based.  Nothing is parsed before the first
\* pull; stations are parsed in document order; station j is parsed only
\* when every record of the stations before it has been handed out; while
\* the generator is suspended or after the consumer has stopped, the parsed
\* stations are exactly those the records handed out belong to; a failure
\* surfaces with exactly the records of the stations before the failing one
\* handed out; a consumer that stopped has seen no error.
C9_StationsParsedOnDemand ==
    parser = "MOSMIX" =>
        /\ (pc = "start" => parsed = << >> /\ out = << >>)
        /\ \A j \in 1..Len(parsed) :
              /\ parsed[j] = j
              /\ Len(out) >= (j - 1) * AxisLen
        /\ (pc \in {"suspended", "closed"} /\ AxisLen > 0) =>
              Len(parsed) = (Len(out) + AxisLen - 1) \div AxisLen
        /\ pc = "error" =>
              /\ parsed # << >>
              /\ i = parsed[Len(parsed)]
              /\ Len(out) = (i - 1) * AxisLen
        /\ pc = "closed" => err = ""

C9_Witness ==
    /\ parser = "MOSMIX"
    /\ StationCount = 2
    /\ AxisLen = 2
    /\ StationFits(1)
    /\ ~StationFits(2)
    /\ pc = "closed"
    /\ Len(out) = 2
    /\ parsed = << 1 >>
    /\ err = ""

----------------------------------------------------------------------------
\* Properties of the observation path.

IsObservation == parser \in ObservationParsers /\ DOMAIN archive = {"namelist", "files"}

Names == { archive.namelist[j] : j \in 1..Len(archive.namelist) }

\* The members named Metadaten_Geographie_<digits>.txt
ExactMetaMembers ==
    { fn \in Names : MatchStationId(fn).ok
                     /\ fn = MetaName(MatchStationId(fn).group) }

ProductMembers == { fn \in Names : Head(fn) = "produkt_" }

WellFormed == ExactMetaMembers # {} /\ Cardinality(ProductMembers) = 1

TheProduct == CHOOSE fn \in ProductMembers : TRUE
TheMeta == CHOOSE fn \in ExactMetaMembers : TRUE

ProductRows == archive.files[TheProduct]
GeographyRows == archive.files[TheMeta]

EffectiveDate(j) == DateOf(Strip(GeographyRows[j]["von_datum"])).val
RowTime(r) == HourOf(ProductRows[r]["MESS_DATUM"]).val

HistorySorted ==
    \A j \in 1..(Len(GeographyRows) - 1) : EffectiveDate(j) <= EffectiveDate(j + 1)

Resolvable(r) ==
    GeographyRows # << >> /\ EffectiveDate(1) <= RowTime(r)

\* The last entry of the history, in source order, in force at row r
LastEntryFor(r) ==
    CHOOSE j \in 1..Len(GeographyRows) :
        /\ EffectiveDate(j) <= RowTime(r)
        /\ \A j2 \in (j + 1)..Len(GeographyRows) : EffectiveDate(j2) > RowTime(r)

\* C4: with a history whose effective dates do not decrease in source order,
\* the record of a row timestamped at or after the first effective date
\* carries the triple of the last history entry whose effective date is at
\* or before the row's timestamp, as parse_lat_lon_history stores it
\* (Geogr.Laenge, Geogr.Breite, Stationshoehe).  The boundary is inclusive.
C4_LastEntryInForce ==
    (IsObservation /\ WellFormed /\ HistorySorted) =>
        \A n \in 1..Len(out) :
            Resolvable(n) =>
                << out[n].lat, out[n].lon, out[n].height >>
                  = << FloatOf(GeographyRows[LastEntryFor(n)]["Geogr.Laenge"]).val,
                       FloatOf(GeographyRows[LastEntryFor(n)]["Geogr.Breite"]).val,
                       FloatOf(GeographyRows[LastEntryFor(n)]["Stationshoehe"]).val >>

C4_Witness ==
    /\ IsObservation /\ WellFormed /\ HistorySorted
    /\ Len(GeographyRows) = 2
    /\ EffectiveDate(1) = 2018010100
    /\ EffectiveDate(2) = 2019060100
    /\ Len(out) = 2
    /\ out[1].timestamp = 2019053123
    /\ out[1].height = 351500
    /\ out[2].timestamp = 2019060100
    /\ out[2].height = 352500

\* C5 (as claimed): a row timestamped before the first effective date, or
\* read with an empty history, never gets a record, whatever rows precede
\* it: the parse fails at that row.
C5_EarlyRowNeverEmitted ==
    (IsObservation /\ WellFormed) =>
        \A r \in 1..Len(ProductRows) :
            ~Resolvable(r) =>
                /\ Len(out) < r
                /\ (n_read >= r => pc = "error")

\* C7: an archive with no member named Metadaten_Geographie_<digits>.txt, or
\* with no or several members whose names start with produkt_, makes the
\* parse fail at the first pull: no record is handed out and no row of a
\* product member is read.
C7_MemberSelectionFailsEarly ==
    (IsObservation /\ ~WellFormed) =>
        /\ pc \in {"start", "error"}
        /\ (pc = "error" => err # "")
        /\ out = << >>
        /\ n_read = 0

C7_Witness ==
    /\ IsObservation
    /\ ExactMetaMembers # {}
    /\ Cardinality(ProductMembers) = 2
    /\ \E fn \in ProductMembers : archive.files[fn] # << >>
    /\ pc = "error"
    /\ err = "AssertionError"
    /\ n_read = 0
    /\ out = << >>

\* C8: records correspond to the rows of the product member one to one and
\* in order: record n carries row n's timestamp; a completed parse has
\* handed out as many records as there are rows; every record has kind
\* 'recent', the source Observations:Recent:<product member> and the digits
\* of the metadata member's name as station_id.
C8_OneRecordPerRow ==
    (IsObservation /\ WellFormed) =>
        /\ Len(out) <= Len(ProductRows)
        /\ (pc = "done" => Len(out) = Len(ProductRows))
        /\ \A n \in 1..Len(out) :
              /\ out[n].timestamp = RowTime(n)
              /\ out[n].observation_type = "recent"
              /\ out[n].source = << "Observations", "Recent", TheProduct >>
              /\ out[n].station_id = MatchStationId(TheMeta).group

C8_Witness ==
    /\ IsObservation /\ WellFormed
    /\ Len(ProductRows) = 2
    /\ pc = "done"
    /\ Len(out) = 2
    /\ out[1].timestamp # out[2].timestamp
    /\ out[2].station_id = StationDigits

\* C10 (as claimed): the lat field of a record holds the source's latitude
\* and the lon field its longitude: in the observation path Geogr.Breite and
\* Geogr.Laenge of the resolved history entry, in the forecast path the
\* second and the first component of the coordinate text.
C10_LatitudeInLatField ==
    /\ (IsObservation /\ WellFormed /\ HistorySorted) =>
          \A n \in 1..Len(out) :
              Resolvable(n) =>
                  /\ out[n].lat =
                       FloatOf(GeographyRows[LastEntryFor(n)]["Geogr.Breite"]).val
                  /\ out[n].lon =
                       FloatOf(GeographyRows[LastEntryFor(n)]["Geogr.Laenge"]).val
    /\ parser = "MOSMIX" =>
          \A n \in 1..Len(out) :
              \E s \in 1..StationCount :
                  /\ out[n].station_id = archive.placemarks[s].name
                  /\ out[n].lat =
                       FloatOf(Split(archive.placemarks[s].coordinates, ",")[2]).val
                  /\ out[n].lon =
                       FloatOf(Split(archive.placemarks[s].coordinates, ",")[1]).val

----------------------------------------------------------------------------
\* Properties of parse_elements.

IsMissing(cell) == Strip(cell) = << "-", "9", "9", "9" >>

Called == pc \in {"done", "error"} /\ row # << >>

RawOf(name) == FloatOf(row[KeyOf(ObsElements(parser), name)]).val

CellOf(name) == row[KeyOf(ObsElements(parser), name)]

\* v is x rounded to hundredths (x is no tie between two hundredths)
IsRounded2(v, x) == v % 10 = 0 /\ v - x < 5 /\ x - v < 5

\* C3 (as claimed): under every profile a -999 cell gives an absent quantity
\* and the row still gives its elements without an error.
C3_MissingCellGivesAbsentValue ==
    (Called /\ \E name \in ElementNames(ObsElements(parser)) : IsMissing(CellOf(name))) =>
        /\ pc = "done"
        /\ \A name \in ElementNames(ObsElements(parser)) :
              IsMissing(CellOf(name)) => elements[name] = None

\* C6: for a row whose cells all hold present values, the temperature
\* profile gives raw + 273.15 rounded to hundredths, the pressure profile
\* raw * 100, the sunshine profile raw * 60, and the wind and precipitation
\* profiles the raw value.
C6_UnitConversion ==
    (Called /\ \A name \in ElementNames(ObsElements(parser)) : ~IsMissing(CellOf(name))) =>
        /\ pc = "done"
        /\ parser = "Temperature" =>
              /\ elements["temperature"] # None
              /\ IsRounded2(elements["temperature"][1],
                            RawOf("temperature") + 273150)
        /\ parser = "Pressure" =>
              elements["pressure_msl"] = << RawOf("pressure_msl") * 100 >>
        /\ parser = "Sunshine" =>
              elements["sunshine"] = << RawOf("sunshine") * 60 >>
        /\ parser = "Precipitation" =>
              elements["precipitation"] = << RawOf("precipitation") >>
        /\ parser = "Wind" =>
              /\ elements["wind_speed"] = << RawOf("wind_speed") >>
              /\ elements["wind_direction"] = << RawOf("wind_direction") >>

C6_Witness ==
    /\ Called
    /\ parser = "Temperature"
    /\ row["TT_TU"] = << " ", "-", "5", ".", "3" >>
    /\ pc = "done"
    /\ elements["temperature"] = << 267850 >>

====
